---- MODULE Spec2Model ----
(***************************************************************************)
(* EzyCore: the SQLAlchemy driver (location map, fetch / fetch_one /       *)
(* export pipeline) and the Model / PartialRef schema checks.              *)
(*                                                                         *)
(* Python objects that are shared by reference (the dicts handed to the    *)
(* Driver constructor, and the dict() default arguments that are created   *)
(* once, when the def statement runs) live in a heap; a Driver holds       *)
(* references into it.                                                     *)
(***************************************************************************)
EXTENDS Integers, Sequences, FiniteSets, TLC

\* ------------------------------------------------------------------ bounds
MaxRows == 2        \* rows a table may hold
MaxStream == 2      \* items in one export stream
MaxKwds == 2        \* keyword pairs in one map_to_model call

\* ------------------------------------------------------------- the universe
None == "None"
Drivers == {1, 2}
LogicalKeys == {"users", "posts"}
Tables == {"t_users"}                    \* the tables of the database
TableNames == {"t_users", "t_posts"}     \* names a caller may map a key to
Locations == LogicalKeys \cup Tables     \* what callers address
ModelNames == {"User", "Post"}

\* Values: ints, strings (n >= 0 is the decimal string of n, n = -1 is "abc"),
\* SQL NULL / Python None, and Model instances (the value of their key in n).
IntV(n) == [t |-> "int", n |-> n, cls |-> ""]
StrV(n) == [t |-> "str", n |-> n, cls |-> ""]
NullV == [t |-> "null", n |-> 0, cls |-> ""]
InstV(c, n) == [t |-> "inst", n |-> n, cls |-> c]

\* What metadata.reflect() finds: per table, its columns in order.
Headers == [tb \in Tables |-> <<"id", "name">>]

\* The bound models' declared fields and their types.
ModelFields(m) == IF m = "User" THEN {"id", "name"} ELSE {"id"}
FieldType(f) == IF f = "id" THEN "int" ELSE "str"

SeqRange(s) == {s[i] : i \in 1..Len(s)}

\* pydantic's field validation: (ok, coerced value or the value refused).
FieldValidate(type, v) ==
  IF type = "int"
    THEN IF v.t = "int" THEN [ok |-> TRUE, v |-> v]
         ELSE IF v.t = "str" /\ v.n >= 0 THEN [ok |-> TRUE, v |-> IntV(v.n)]
         ELSE [ok |-> FALSE, v |-> v]
    ELSE IF v.t = "str" THEN [ok |-> TRUE, v |-> v]
         ELSE IF v.t = "int" THEN [ok |-> TRUE, v |-> StrV(v.n)]
         ELSE [ok |-> FALSE, v |-> v]

\* model(**data): every declared field present and valid; extra keys ignored.
ModelValid(m, data) ==
  \A f \in ModelFields(m) :
    f \in DOMAIN data /\ FieldValidate(FieldType(f), data[f]).ok
ModelBuild(m, data) ==
  [f \in ModelFields(m) |-> FieldValidate(FieldType(f), data[f]).v]

\* ------------------------------------------------------------------- state
VARIABLES
  drivers,      \* the Driver instances constructed
  self_models,  \* self.__models: per Driver, a reference to a dict
  self_maps,    \* self.__maps: per Driver, a reference to a dict
  heap_models,  \* the dict objects bound to __models: location -> model
  heap_maps,    \* the dict objects bound to __maps: ordered <<key, table>>
  rev_map,      \* self.__rev_map: per Driver, its own dict
  db,           \* the backing store: per table, its committed rows
  session,      \* self.__session: per Driver, the pending instances
  call,         \* the last call made (or class defined) and its arguments
  outcome       \* what the last call returned or raised, and did

driverVars == <<drivers, self_models, self_maps, heap_models, heap_maps,
                rev_map, db, session, call, outcome>>
vars == driverVars

\* --------------------------------------------------------------- dict utils
\* dict.get on a dict kept as a function
Get(f, k, default) == IF k \in DOMAIN f THEN f[k] ELSE default

\* an insertion-ordered dict kept as a sequence of <<key, value>>
Keys(d) == {d[i][1] : i \in 1..Len(d)}
Values(d) == {d[i][2] : i \in 1..Len(d)}
OGet(d, k, default) ==
  IF k \in Keys(d)
    THEN d[CHOOSE i \in 1..Len(d) : d[i][1] = k][2]
    ELSE default

\* d[k] = v: an existing key keeps its place, a new key goes last
OSet(d, k, v) ==
  IF k \in Keys(d)
    THEN [i \in 1..Len(d) |-> IF d[i][1] = k THEN <<k, v>> ELSE d[i]]
    ELSE Append(d, <<k, v>>)

\* dict.update(kwds), pair by pair in kwds' order
RECURSIVE Update(_, _)
Update(d, kwds) ==
  IF kwds = <<>> THEN d
  ELSE Update(OSet(d, Head(kwds)[1], Head(kwds)[2]), Tail(kwds))

\* {v: k for k, v in d.items()}: a later pair overwrites an earlier one
Invert(d) ==
  [v \in Values(d) |->
     d[CHOOSE i \in 1..Len(d) :
         /\ d[i][2] = v
         /\ \A j \in 1..Len(d) : d[j][2] = v => j <= i][1]]

\* the dicts a Driver sees through its references
models(d) == heap_models[self_models[d]]
maps(d) == heap_maps[self_maps[d]]

\* ------------------------------------------------------------ _get_model
GetModelLastRev(ms, mp, rv, location) ==
  Get(ms, location,
      Get(ms, Get(rv, location, None), Get(ms, OGet(mp, location, None), None)))

\* models.get(location, models.get(maps.get(location),
\*                                 models.get(rev_map.get(location))))
GetModel(ms, mp, rv, location) ==
  Get(ms, location,
      Get(ms, OGet(mp, location, None), Get(ms, Get(rv, location, None), None)))

_get_model(d, location) == GetModel(models(d), maps(d), rev_map[d], location)

\* ------------------------------------------------------------ _model_fits
ModelFitsAnyModel(d, location) ==
  IF _get_model(d, location) = None THEN "False"
  ELSE IF location \notin DOMAIN Headers THEN "KeyError"
  ELSE "True"

\* "False", "True", or the KeyError of self.__headers[location]
_model_fits(d, location) ==
  IF _get_model(d, location) = None THEN "False"
  ELSE IF location \notin DOMAIN Headers THEN "KeyError"
  ELSE IF SeqRange(Headers[location]) \subseteq ModelFields(_get_model(d, location))
    THEN "True"
    ELSE "False"

\* ------------------------------------------------------------ map_to_model
KwdsSets ==
  UNION {[1..n -> LogicalKeys \X TableNames] : n \in 0..MaxKwds}
\* keyword arguments: each name once
Kwds == {k \in KwdsSets : \A i, j \in 1..Len(k) : k[i][1] = k[j][1] => i = j}

RevMapStale(d, newmaps) == rev_map[d]

\* line 68: self.__rev_map = {v: k for k, v in self.__maps.items()}
RevMapRecomputed(d, newmaps) == Invert(newmaps)

map_to_model(d, kwds) ==
  /\ d \in drivers
  /\ heap_maps' = [heap_maps EXCEPT ![self_maps[d]] = Update(@, kwds)]
  /\ rev_map' = [rev_map EXCEPT ![d] = RevMapRecomputed(d, heap_maps'[self_maps[d]])]
  /\ call' = [op |-> "map_to_model", drv |-> d]
  /\ outcome' = [raised |-> ""]
  /\ UNCHANGED <<drivers, self_models, self_maps, heap_models, db, session>>

\* ------------------------------------------------------- the query backend
\* a condition is "" or "id = 1"; id is the first column
Matches(condition, row) == condition = "" \/ row[1] = IntV(1)

\* select([table]).where(text(condition)).limit(limit_result), executed
Query(table, condition, limit_result) ==
  LET hit == SelectSeq(db[table], LAMBDA row : Matches(condition, row))
  IN IF limit_result > 0 /\ Len(hit) > limit_result
       THEN SubSeq(hit, 1, limit_result)
       ELSE hit

\* the backend raises SQLAlchemyError: it is down, or the table is unknown
BackendFails(table, backendOk) == ~backendOk \/ table \notin Tables

\* ------------------------------------------------------ _result_to_output
\* {self.__headers[head][i]: v for i, v in enumerate(result)}
ZipRow(head, result) ==
  [c \in SeqRange(Headers[head]) |->
     result[CHOOSE i \in 1..Len(result) : Headers[head][i] = c]]

\* What consuming the generator yields, and whether it ends by raising the
\* ValidationError of model(**data).
RECURSIVE _result_to_output(_, _, _)
_result_to_output(head, model, results) ==
  IF results = <<>> THEN [rows |-> <<>>, raises |-> FALSE]
  ELSE LET data == ZipRow(head, Head(results))
           rest == _result_to_output(head, model, Tail(results))
       IN IF model = None
            THEN [rows |-> <<data>> \o rest.rows, raises |-> rest.raises]
          ELSE IF ModelValid(model, data)
            THEN [rows |-> <<ModelBuild(model, data)>> \o rest.rows,
                  raises |-> rest.raises]
          ELSE [rows |-> <<>>, raises |-> TRUE]

\* ------------------------------------------------------------------ fetch
\* lines 74-75: bind the supplied model when the location resolves to none
BindModel(d, location, model) ==
  IF model # None /\ _get_model(d, location) = None
    THEN [heap_models EXCEPT ![self_models[d]] =
            [l \in DOMAIN @ \cup {location} |->
               IF l = location THEN model ELSE @[l]]]
    ELSE heap_models

FetchErrorPropagates(ret) == [ret EXCEPT !.raised = "SQLAlchemyError"]

\* lines 86-88 and 109-111: except SQLAlchemyError: ... return None
FetchErrorCaught(ret) == [ret EXCEPT !.ret = "None"]

NoResult == [raised |-> "", ret |-> "", rows |-> <<>>, genRaises |-> FALSE,
             backendFailed |-> FALSE]

\* lines 76-92, with ms the models dict after line 75.  A generator is shown
\* by what consuming it yields (rows) and whether that ends in the
\* ValidationError of a row the model refuses (genRaises).
FetchResult(d, ms, location, condition, limit_result, no_handle, ignore_model, backendOk) ==
  LET model == GetModel(ms, maps(d), rev_map[d], location)
      table == OGet(maps(d), location, location)
  IN IF BackendFails(table, backendOk)
       THEN FetchErrorCaught([NoResult EXCEPT !.backendFailed = TRUE])
     ELSE LET results == Query(table, condition, limit_result)
          IN IF results = <<>> THEN [NoResult EXCEPT !.ret = "None"]
             ELSE IF no_handle
               THEN [NoResult EXCEPT !.ret = "iterator", !.rows = results]
             ELSE LET out == _result_to_output(
                               table, IF ignore_model THEN None ELSE model,
                               results)
                  IN [NoResult EXCEPT !.ret = "generator",
                                      !.rows = out.rows,
                                      !.genRaises = out.raises]

fetch(d, location, condition, limit_result, model, no_handle, ignore_model, backendOk) ==
  /\ d \in drivers
  /\ heap_models' = BindModel(d, location, model)
  /\ outcome' = FetchResult(d, heap_models'[self_models[d]], location,
                            condition, limit_result, no_handle, ignore_model,
                            backendOk)
  /\ call' = [op |-> "fetch", drv |-> d]
  /\ UNCHANGED <<drivers, self_models, self_maps, heap_maps, rev_map, db,
                 session>>

\* -------------------------------------------------------------- fetch_one
\* lines 100-115, with ms the models dict after line 99
FetchOneResult(d, ms, location, condition, no_handle, ignore_model, backendOk) ==
  LET model == GetModel(ms, maps(d), rev_map[d], location)
      table == OGet(maps(d), location, location)
  IN IF BackendFails(table, backendOk)
       THEN FetchErrorCaught([NoResult EXCEPT !.backendFailed = TRUE])
     ELSE LET results == Query(table, condition, 1)
          IN IF results = <<>> THEN [NoResult EXCEPT !.ret = "None"]
             ELSE IF no_handle
               THEN [NoResult EXCEPT !.ret = "row", !.rows = results]
             ELSE LET out == _result_to_output(
                               table, IF ignore_model THEN None ELSE model,
                               results)
                  IN \* next(generator)
                     IF out.raises
                       THEN [NoResult EXCEPT !.raised = "ValidationError"]
                       ELSE [NoResult EXCEPT !.ret = "record",
                                             !.rows = out.rows]

fetch_one(d, location, condition, model, no_handle, ignore_model, backendOk) ==
  /\ d \in drivers
  /\ heap_models' = BindModel(d, location, model)
  /\ outcome' = FetchOneResult(d, heap_models'[self_models[d]], location,
                               condition, no_handle, ignore_model, backendOk)
  /\ call' = [op |-> "fetch_one", drv |-> d]
  /\ UNCHANGED <<drivers, self_models, self_maps, heap_maps, rev_map, db,
                 session>>

\* ----------------------------------------------------------------- export
\* The items a stream may hold: a dict that validates (its id "1" is coerced
\* to 1), a dict that does not (id "abc", no name), and a User instance.
DictGood == [kind |-> "dict", cls |-> "",
             data |-> [f \in {"id", "name"} |->
                         IF f = "id" THEN StrV(1) ELSE StrV(-1)]]
DictBad == [kind |-> "dict", cls |-> "", data |-> [f \in {"id"} |-> StrV(-1)]]
UserInst == [kind |-> "model", cls |-> "User",
             data |-> [f \in {"id", "name"} |->
                         IF f = "id" THEN IntV(2) ELSE StrV(-1)]]
StreamItems == {"DictGood", "DictBad", "UserInst"}
Item(name) ==
  CASE name = "DictGood" -> DictGood
    [] name = "DictBad" -> DictBad
    [] name = "UserInst" -> UserInst
Streams == UNION {[1..n -> StreamItems] : n \in 0..MaxStream}
IncludeArgs == {{}}     \* the default, None
ExcludeArgs == {{}}

\* data.dict(include=include, exclude=exclude)
Project(obj, include, exclude) ==
  [f \in (DOMAIN obj \cap include) \ exclude |-> obj[f]]

\* the row instance built from the keyword arguments: unset columns are NULL
RowOf(table, data) ==
  [i \in 1..Len(Headers[table]) |->
     IF Headers[table][i] \in DOMAIN data THEN data[Headers[table][i]]
     ELSE NullV]

RollbackSkipped(pending) == pending

\* line 137: self.__session.rollback() drops what is pending
Rollback(pending) == <<>>

\* session.commit(): flush every pending instance to its table
RECURSIVE Flush(_, _)
Flush(store, pending) ==
  IF pending = <<>> THEN store
  ELSE Flush([store EXCEPT ![Head(pending)[1]] = Append(@, Head(pending)[2])],
             Tail(pending))

ValidationErrorSwallowed(st) == [st EXCEPT !.rollbacks = @ + 1]

\* line 126 sits outside the try: the ValidationError leaves export
ValidationErrorPropagates(st) == [st EXCEPT !.raised = "ValidationError"]

\* One pass of the loop body (lines 124-137) for item i of the stream.
ExportItem(st, d, location, model, item, failing, include, exclude) ==
  LET st1 == [st EXCEPT !.consumed = @ + 1]
  IN IF item.kind = "dict" /\ model # None /\ ~ModelValid(model, item.data)
       THEN ValidationErrorPropagates(st1)
     ELSE
       LET obj == IF item.kind = "dict" /\ model # None
                    THEN ModelBuild(model, item.data)
                    ELSE item.data
           data == Project(obj, include, exclude)
           table == OGet(maps(d), location, location)
           added == Append(st1.pending, <<table, RowOf(table, data)>>)
           st2 == [st1 EXCEPT !.adds = @ + 1]
       IN IF failing
            THEN [st2 EXCEPT !.pending = Rollback(added),
                             !.rollbacks = @ + 1]
            ELSE [st2 EXCEPT !.store = Flush(@, added),
                             !.pending = <<>>,
                             !.commits = @ + 1]

\* for data in stream: ... (stops where an exception leaves the loop)
\* failAt is the item whose insert the backend refuses (0: none).
RECURSIVE ExportLoop(_, _, _, _, _, _, _, _)
ExportLoop(st, d, location, model, stream, failAt, include, exclude) ==
  IF stream = <<>> \/ st.raised # "" THEN st
  ELSE ExportLoop(
         ExportItem(st, d, location, model, Item(Head(stream)), failAt = 1,
                    include, exclude),
         d, location, model, Tail(stream), failAt - 1, include, exclude)

ExportStart(d) ==
  [raised |-> "", store |-> db, pending |-> session[d], consumed |-> 0,
   adds |-> 0, commits |-> 0, rollbacks |-> 0]

\* lines 118-137
ExportRun(d, location, stream, failAt, include, exclude) ==
  LET fits == _model_fits(d, location)
  IN IF fits = "KeyError" THEN [ExportStart(d) EXCEPT !.raised = "KeyError"]
     ELSE IF fits = "False"
       THEN [ExportStart(d) EXCEPT !.raised = "AssertionError"]
     ELSE ExportLoop(ExportStart(d), d, location, _get_model(d, location),
                     stream, failAt,
                     IF include # {} THEN include
                     ELSE SeqRange(Headers[location]),
                     exclude)

\* the table an export to location writes to, when it has one
ExportRoom(d, location, stream) ==
  LET table == OGet(maps(d), location, location)
  IN table \in Tables => Len(db[table]) + Len(stream) <= MaxRows

export(d, location, stream, failAt, include, exclude) ==
  /\ d \in drivers
  /\ ExportRoom(d, location, stream)
  /\ LET st == ExportRun(d, location, stream, failAt, include, exclude)
     IN /\ db' = st.store
        /\ session' = [session EXCEPT ![d] = st.pending]
        /\ outcome' = [raised |-> st.raised, consumed |-> st.consumed,
                       adds |-> st.adds, commits |-> st.commits,
                       rollbacks |-> st.rollbacks, before |-> db]
  /\ call' = [op |-> "export", drv |-> d, loc |-> location,
              stream |-> stream, failAt |-> failAt, include |-> include]
  /\ UNCHANGED <<drivers, self_models, self_maps, heap_models, heap_maps,
                 rev_map>>

\* ------------------------------------------------------------ construction
EmptyDict == [l \in {} |-> None]

\* dicts a caller may hand to the constructor
InitModelDicts ==
  {"users" :> "User", "t_users" :> "User", "t_users" :> "Post"}
InitMapDicts ==
  {<< <<"users", "t_users">> >>,
   << <<"users", "t_users">>, <<"posts", "t_users">> >>}

\* rows earlier exports have committed
Row1 == <<IntV(1), StrV(-1)>>
Row2 == <<IntV(2), StrV(-1)>>
Row1Null == <<IntV(1), NullV>>
InitRows == {<<>>, <<Row1>>, <<Row2, Row1>>, <<Row1Null>>, <<Row1, Row1Null>>}

\* Object 0 is the dict() each default argument was bound to when the def
\* statement ran; object d is the dict the caller handed to Driver d.
\* __init__ (lines 32-35) stores the references and inverts maps.
Constructed(ds, modelDicts, mapDicts) ==
  /\ drivers = ds
  /\ self_models \in [ds -> {0} \cup ds]
  /\ self_maps \in [ds -> {0} \cup ds]
  /\ \A d \in ds : self_models[d] \in {0, d} /\ self_maps[d] \in {0, d}
  /\ modelDicts = {} => \A d \in ds : self_models[d] = 0
  /\ heap_models \in [{0} \cup ds -> modelDicts \cup {EmptyDict}]
  /\ heap_maps \in [{0} \cup ds -> mapDicts \cup {<<>>}]
  /\ heap_models[0] = EmptyDict
  /\ heap_maps[0] = <<>>
  /\ \A d \in ds : self_models[d] = d <=> heap_models[d] # EmptyDict
  /\ \A d \in ds : self_maps[d] = d <=> heap_maps[d] # <<>>
  /\ rev_map = [d \in ds |-> Invert(heap_maps[self_maps[d]])]
  /\ session = [d \in ds |-> <<>>]
  /\ call = [op |-> "__init__", drv |-> 0]
  /\ outcome = [raised |-> ""]

\* ------------------------------------------------------------------ steps
MapToModel == \E d \in Drivers, kwds \in Kwds : map_to_model(d, kwds)

FetchModels == {None, "User"}
\* condition, limit_result, no_handle, ignore_model
FetchOptions ==
  {<<"", -1, FALSE, FALSE>>, <<"id = 1", 1, FALSE, FALSE>>,
   <<"", 1, TRUE, FALSE>>, <<"", -1, FALSE, TRUE>>}

Fetch ==
  \E d \in Drivers, location \in Locations, o \in FetchOptions,
     model \in FetchModels, backendOk \in BOOLEAN :
    fetch(d, location, o[1], o[2], model, o[3], o[4], backendOk)

FetchOne ==
  \E d \in Drivers, location \in Locations, o \in FetchOptions,
     model \in FetchModels, backendOk \in BOOLEAN :
    fetch_one(d, location, o[1], model, o[3], o[4], backendOk)

Export ==
  \E d \in Drivers, location \in Locations, stream \in Streams,
     include \in IncludeArgs, exclude \in ExcludeArgs :
    \E failAt \in 0..Len(stream) :
      export(d, location, stream, failAt, include, exclude)

\* A direct call of _get_model.
GetModelCall ==
  \E d \in Drivers, location \in Locations :
    /\ d \in drivers
    /\ call' = [op |-> "_get_model", drv |-> d, loc |-> location]
    /\ outcome' = [raised |-> "", ret |-> _get_model(d, location)]
    /\ UNCHANGED <<drivers, self_models, self_maps, heap_models, heap_maps,
                   rev_map, db, session>>
  
\* One Driver over an empty database: export.
Init ==
  /\ Constructed({1}, InitModelDicts, {<< <<"users", "t_users">> >>})
  /\ db = [tb \in Tables |-> <<>>]
Next == Export
Spec == Init /\ [][Next]_vars

\* One Driver over a database that holds rows: fetch and fetch_one.
InitFetch ==
  /\ Constructed({1}, InitModelDicts, InitMapDicts)
  /\ db \in [Tables -> InitRows]
NextFetch == Fetch \/ FetchOne
SpecFetch == InitFetch /\ [][NextFetch]_vars

\* Two Drivers, the operations that write models, maps or rev_map.
InitShared ==
  /\ Constructed(Drivers, {}, InitMapDicts)
  /\ db = [tb \in Tables |-> <<>>]
NextShared == MapToModel \/ Fetch \/ FetchOne
SpecShared == InitShared /\ [][NextShared]_vars

\* One Driver in any state of models, maps and rev_map: _get_model.
SmallDicts(vals) ==
  {EmptyDict} \cup {k :> v : k \in Locations, v \in vals}
  \cup {(k :> v) @@ (l :> w) : k, l \in Locations, v, w \in vals}
InitGetModel ==
  /\ drivers = {1}
  /\ self_models = [d \in {1} |-> 1]
  /\ self_maps = [d \in {1} |-> 1]
  /\ heap_models \in [{1} -> SmallDicts(ModelNames)]
  /\ heap_maps \in [{1} -> {<<>>} \cup {<< <<k, v>> >> : k, v \in Locations}]
  /\ rev_map \in [{1} -> {EmptyDict} \cup {k :> v : k, v \in Locations}]
  /\ db = [tb \in Tables |-> <<>>]
  /\ session = [d \in {1} |-> <<>>]
  /\ call = [op |-> "__init__", drv |-> 0]
  /\ outcome = [raised |-> ""]
NextGetModel == GetModelCall
SpecGetModel == InitGetModel /\ [][NextGetModel]_vars

\* =================================================================== claims

\* ---- C1 (SpecShared)
Injective(mp) ==
  \A i, j \in 1..Len(mp) : mp[i][2] = mp[j][2] => i = j

\* rev_map holds exactly the tables of maps, each with the key of the last
\* pair of maps that names it
LastWriteInverse(d) ==
  /\ DOMAIN rev_map[d] = Values(maps(d))
  /\ \A i \in 1..Len(maps(d)) :
       (\A j \in (i + 1)..Len(maps(d)) : maps(d)[j][2] # maps(d)[i][2])
         => rev_map[d][maps(d)[i][2]] = maps(d)[i][1]

ExactInverse(d) ==
  \A i \in 1..Len(maps(d)) :
    Get(rev_map[d], maps(d)[i][2], None) = maps(d)[i][1]

OwnsMaps(d) == \A e \in drivers \ {d} : self_maps[e] # self_maps[d]

JustWroteMaps(d) ==
  call.op = "__init__" \/ (call.op = "map_to_model" /\ call.drv = d)

BothDefault ==
  \A d \in drivers : self_models[d] = 0 /\ self_maps[d] = 0

\* C10: of two Drivers constructed without models / model_maps arguments, an
\* operation on one changes neither the other's models, maps or rev_map,
\* nor whether the other's rev_map is the inverse of its maps.
C10_DriversIsolated ==
  [][\A d \in drivers :
       (BothDefault /\ call'.drv # d) =>
         /\ heap_models'[self_models'[d]] = heap_models[self_models[d]]
         /\ heap_maps'[self_maps'[d]] = heap_maps[self_maps[d]]
         /\ rev_map'[d] = rev_map[d]
         /\ LastWriteInverse(d) => LastWriteInverse(d)']_vars

\* ---- C9 (SpecGetModel)
\* C9: _get_model(location) is the first hit among models[location],
\* models[maps[location]], models[rev_map[location]], and no model only when
\* all three miss.
C9_GetModelFirstHit ==
  call.op = "_get_model" =>
    LET ms == models(call.drv)
        mp == maps(call.drv)
        rv == rev_map[call.drv]
        l == call.loc
        viaMaps == l \in Keys(mp) /\ OGet(mp, l, None) \in DOMAIN ms
        viaRev == l \in DOMAIN rv /\ rv[l] \in DOMAIN ms
    IN /\ l \in DOMAIN ms => outcome.ret = ms[l]
       /\ (l \notin DOMAIN ms /\ viaMaps) => outcome.ret = ms[OGet(mp, l, None)]
       /\ (l \notin DOMAIN ms /\ ~viaMaps /\ viaRev) => outcome.ret = ms[rv[l]]
       /\ (l \notin DOMAIN ms /\ ~viaMaps /\ ~viaRev) => outcome.ret = None

\* the exact key misses, maps and rev_map hit different models, maps wins
C9_Witness ==
  /\ call.op = "_get_model"
  /\ call.loc \notin DOMAIN models(1)
  /\ call.loc \in Keys(maps(1)) /\ call.loc \in DOMAIN rev_map[1]
  /\ OGet(maps(1), call.loc, None) \in DOMAIN models(1)
  /\ rev_map[1][call.loc] \in DOMAIN models(1)
  /\ models(1)[rev_map[1][call.loc]] # models(1)[OGet(maps(1), call.loc, None)]
  /\ outcome.ret = models(1)[OGet(maps(1), call.loc, None)]

\* ---- C5 (SpecFetch)
\* C5: a fetch or fetch_one whose backend fails returns None and raises
\* nothing.
C5_FetchNeverRaisesOnBackendError ==
  (call.op \in {"fetch", "fetch_one"} /\ outcome.backendFailed) =>
    outcome.raised = "" /\ outcome.ret = "None"

\* the backend failed on a table that holds rows, and the call returned None
C5_Witness ==
  /\ call.op = "fetch_one"
  /\ outcome.backendFailed /\ outcome.ret = "None"
  /\ db["t_users"] # <<>>

\* ---- the export claims (Spec)
\* The record an item stands for, column by column, and whether the bound
\* model accepts it: stated from the items, not from the export code.
RecordOf(name) == IF name = "UserInst" THEN Row2 ELSE Row1
Coercible(name) == name # "DictBad"

ExportTable == OGet(maps(call.drv), call.loc, call.loc)
ExportModel == _get_model(call.drv, call.loc)

\* the export got past its precondition
ExportEntered ==
  /\ call.op = "export"
  /\ outcome.raised \notin {"AssertionError", "KeyError"}

\* the first item of the stream that fails coercion (Len + 1: none does)
FirstUncoercible ==
  LET bad == {i \in 1..Len(call.stream) : ~Coercible(call.stream[i])}
  IN IF bad = {} THEN Len(call.stream) + 1
     ELSE CHOOSE i \in bad : \A j \in bad : i <= j

\* the records of items 1..n that the backend did not refuse, in order
RECURSIVE RecordsUpTo(_)
RecordsUpTo(n) ==
  IF n = 0 THEN <<>>
  ELSE IF n = call.failAt THEN RecordsUpTo(n - 1)
  ELSE Append(RecordsUpTo(n - 1), RecordOf(call.stream[n]))

RefusedBefore(n) == IF call.failAt \in 1..n THEN 1 ELSE 0

\* C2: each item is committed on its own: when the backend refuses item k,
\* only k is rolled back, the items before k stay committed, the items after
\* k are still attempted, and export does not raise for it.
C2_ExportIsolatesBackendFailure ==
  ExportEntered =>
    LET n == FirstUncoercible - 1      \* the items export gets to insert
    IN /\ outcome.raised \in {"", "ValidationError"}
       /\ n = Len(call.stream) => outcome.raised = ""
       /\ outcome.adds = n
       /\ outcome.rollbacks = RefusedBefore(n)
       /\ outcome.commits = n - RefusedBefore(n)
       /\ db[ExportTable] = outcome.before[ExportTable] \o RecordsUpTo(n)
       /\ session[call.drv] = <<>>

\* the backend refused item 1 of 2, item 2 was still inserted and committed
C2_Witness ==
  /\ ExportEntered
  /\ Len(call.stream) = 2 /\ call.failAt = 1
  /\ outcome.raised = "" /\ outcome.rollbacks = 1 /\ outcome.commits = 1
  /\ db[ExportTable] = outcome.before[ExportTable]
                         \o <<RecordOf(call.stream[2])>>

\* C3, as stated: when item k fails coercion into the bound model, export
\* goes on: every item is consumed, export does not raise, and the commits
\* number the items that did not fail.
C3_ExportContinuesPastInvalidItem ==
  (ExportEntered /\ FirstUncoercible <= Len(call.stream)) =>
    /\ outcome.raised = ""
    /\ outcome.consumed = Len(call.stream)
    /\ outcome.commits =
         Cardinality({i \in 1..Len(call.stream) :
                        Coercible(call.stream[i]) /\ i # call.failAt})

\* C3, amended: when item k fails coercion into the bound model, the
\* ValidationError leaves export at item k: items 1..k-1 were each inserted
\* and committed (but the one the backend refused), nothing is inserted or
\* rolled back for item k, and no item after k is consumed, so the commits
\* number the items before k that did not fail.
C3_ExportStopsAtInvalidItem ==
  (ExportEntered /\ FirstUncoercible <= Len(call.stream)) =>
    LET k == FirstUncoercible
    IN /\ outcome.raised = "ValidationError"
       /\ outcome.consumed = k
       /\ outcome.adds = k - 1
       /\ outcome.commits = k - 1 - RefusedBefore(k - 1)
       /\ outcome.rollbacks = RefusedBefore(k - 1)
       /\ db[ExportTable] = outcome.before[ExportTable] \o RecordsUpTo(k - 1)

\* item 1 was committed, item 2 failed coercion
C3_Witness ==
  /\ ExportEntered
  /\ Len(call.stream) = 2 /\ FirstUncoercible = 2 /\ call.failAt = 0
  /\ outcome.raised = "ValidationError" /\ outcome.commits = 1
  /\ Len(db[ExportTable]) = Len(outcome.before[ExportTable]) + 1

\* the location has no bound model, or its model lacks a column of its table
Unfit ==
  \/ ExportModel = None
  \/ /\ ExportTable \in Tables
     /\ ~(SeqRange(Headers[ExportTable]) \subseteq ModelFields(ExportModel))

\* C4: export on a location with no bound model, or with a model that lacks
\* a column of the table, fails before any row is touched: no item is
\* consumed, nothing is inserted, committed or rolled back.
C4_ExportPreconditionFatal ==
  (call.op = "export" /\ Unfit) =>
    /\ outcome.raised # ""
    /\ outcome.consumed = 0
    /\ outcome.adds = 0 /\ outcome.commits = 0 /\ outcome.rollbacks = 0
    /\ db = outcome.before
    /\ session[call.drv] = <<>>

\* a model is bound but lacks a column, and the stream has items
C4_Witness ==
  /\ call.op = "export" /\ ExportModel = "Post" /\ call.loc = "t_users"
  /\ Len(call.stream) = 2 /\ Coercible(call.stream[1])
  /\ outcome.raised = "AssertionError"

\* C6: when the model bound to a location fits the location's table, be the
\* location the table's name or a key mapped to it, a record exported there
\* is among the records a fetch of the location with no condition yields,
\* equal on the include fields.
C6_ExportFetchRoundTrip ==
  (/\ call.op = "export"
   /\ Len(call.stream) = 1 /\ Coercible(call.stream[1]) /\ call.failAt = 0
   /\ ExportModel # None /\ ExportTable \in Tables
   /\ SeqRange(Headers[ExportTable]) \subseteq ModelFields(ExportModel)) =>
    LET got == FetchResult(call.drv, models(call.drv), call.loc, "", -1,
                           FALSE, FALSE, TRUE)
        fields == IF call.include = {} THEN SeqRange(Headers[ExportTable])
                  ELSE call.include
    IN /\ outcome.raised = ""
       /\ got.ret = "generator" /\ ~got.genRaises
       /\ \E i \in 1..Len(got.rows) :
            \A f \in fields \cap DOMAIN got.rows[i] :
              got.rows[i][f] =
                ZipRow(ExportTable, RecordOf(call.stream[1]))[f]

\* ========================================================= models/core.py
\* ------------------------------------------------- Model.__init_subclass__
\* A class body: its _config attribute and its annotations, in order.
PartialFieldNames == <<"author", "editor", "approver">>
AnnotationKinds ==
  {"plain",             \* an ordinary field
   "PartialRef[Model]", \* a partial reference to a Model
   "PartialRef[int]"}   \* a partial reference to something else
ClassAnnotations == [1..Len(PartialFieldNames) -> AnnotationKinds]

\* partials keys: the three fields, and "legacy", which is no field at all
PartialsDicts ==
  {[k \in ks |-> "segment"] : ks \in SUBSET (SeqRange(PartialFieldNames)
                                             \cup {"legacy"})}
ConfigAttrs ==
  {[kind |-> "absent", search_by |-> None, partials |-> EmptyDict],
   [kind |-> "str", search_by |-> None, partials |-> EmptyDict],
   [kind |-> "dict", search_by |-> None, partials |-> EmptyDict]}
  \cup [kind : {"dict", "Config"}, search_by : {"id"}, partials : PartialsDicts]

Raised(exc, names) == [kind |-> "error", exc |-> exc, names |-> names]

\* lines 40-46: the names yielded before the generator ends or raises
RECURSIVE _read_partials(_, _)
_read_partials(ann, i) ==
  IF i > Len(ann) THEN [yielded |-> <<>>, invalid |-> None]
  ELSE IF ann[i] = "PartialRef[Model]"
    THEN LET rest == _read_partials(ann, i + 1)
         IN [rest EXCEPT !.yielded = <<PartialFieldNames[i]>> \o @]
  ELSE IF ann[i] = "PartialRef[int]"
    THEN [yielded |-> <<>>, invalid |-> PartialFieldNames[i]]
  ELSE _read_partials(ann, i + 1)

MissingInverted(partials, defined_partials) ==
  SelectSeq(partials, LAMBDA i : i \in DOMAIN defined_partials)

\* line 55: missing = [i for i in partials if i not in defined_partials]
Missing(partials, defined_partials) ==
  SelectSeq(partials, LAMBDA i : i \notin DOMAIN defined_partials)

\* lines 49-57
_verify_partials(config, ann) ==
  IF _read_partials(ann, 1).invalid # None      \* tuple(...) raises
    THEN Raised("ValueError: Invalid model provided for partial definition",
                <<_read_partials(ann, 1).invalid>>)
  ELSE LET partials == _read_partials(ann, 1).yielded
           missing == Missing(partials, config.partials)
       IN IF missing # <<>>
            THEN Raised("ValueError: Missing partial definitions for", missing)
            ELSE [kind |-> "class", annotations |-> ann,
                  partials |-> config.partials,
                  ezycore_internal__partials |-> partials]

\* lines 60-71
__init_subclass__(config, ann) ==
  IF config.kind = "absent"
    THEN Raised("ModalMissingConfig", <<>>)
  ELSE IF config.kind = "dict" /\ config.search_by = None
    THEN Raised("ValidationError", <<"search_by">>)      \* Config(**r)
  ELSE IF config.kind \notin {"dict", "Config"}
    THEN Raised("AssertionError", <<>>)
  ELSE _verify_partials(config, ann)

DefineModel ==
  \E config \in ConfigAttrs, ann \in ClassAnnotations :
    /\ outcome' = __init_subclass__(config, ann)
    /\ call' = [op |-> "class", drv |-> 0, config |-> config, ann |-> ann]
    /\ UNCHANGED <<drivers, self_models, self_maps, heap_models, heap_maps,
                   rev_map, db, session>>

\* ------------------------------------------------------ PartialRef.validate
\* The Models a partial reference may target: their fields, their
\* _config.search_by, and the classes whose instances are instances of them.
TargetModels == {"Author", "Tag", "Ghost"}
TargetFields(m) == [f \in {"id", "name"} |-> FieldType(f)]
SearchBy(m) ==
  CASE m = "Author" -> "id"
    [] m = "Tag" -> "name"
    [] m = "Ghost" -> "uuid"       \* names no field: nothing checks it
IsInstance(v, m) ==
  v.t = "inst" /\ (v.cls = m \/ (m = "Author" /\ v.cls = "Admin"))

InputValues ==
  {IntV(0), IntV(7), StrV(7), StrV(-1), NullV}
  \cup {InstV(c, 7) : c \in {"Author", "Admin", "Tag"}}

\* the ErrorWrapper primary_field.validate returns with a refused value
FieldError(type, loc) ==
  [loc |-> loc,
   exc |-> IF type = "int" THEN "IntegerError" ELSE "StrError"]
NoError == [loc |-> "", exc |-> ""]

Validated(kind, target, v, stored, err) ==
  [kind |-> kind, target |-> target, v |-> v, stored |-> stored, err |-> err]

PartialRefValidateRekeys(type_, v) ==
  IF SearchBy(type_) \notin DOMAIN TargetFields(type_)
    THEN Validated("KeyError", type_, v, NullV, NoError)
  ELSE LET primary_key == SearchBy(type_)
           r == FieldValidate(TargetFields(type_)[primary_key],
                              IF v.t = "inst" THEN IntV(v.n) ELSE v)
       IN IF ~r.ok
            THEN Validated("ValidationError", type_, v, NullV,
                           FieldError(TargetFields(type_)[primary_key],
                                      primary_key))
            ELSE Validated("value", type_, v, r.v, NoError)

\* lines 84-97
PartialRefValidate(type_, v) ==
  IF IsInstance(v, type_) THEN Validated("value", type_, v, v, NoError)
  ELSE IF SearchBy(type_) \notin DOMAIN TargetFields(type_)
    THEN Validated("KeyError", type_, v, NullV, NoError)
  ELSE LET primary_key == SearchBy(type_)
           r == FieldValidate(TargetFields(type_)[primary_key], v)
       IN IF ~r.ok
            THEN Validated("ValidationError", type_, v, NullV,
                           FieldError(TargetFields(type_)[primary_key],
                                      primary_key))
            ELSE Validated("value", type_, v, r.v, NoError)

Validate ==
  \E type_ \in TargetModels, v \in InputValues :
    /\ outcome' = PartialRefValidate(type_, v)
    /\ call' = [op |-> "validate", drv |-> 0]
    /\ UNCHANGED <<drivers, self_models, self_maps, heap_models, heap_maps,
                   rev_map, db, session>>

\* No Driver: Model classes are defined and partial references validated.
InitSchema ==
  /\ drivers = {}
  /\ self_models = EmptyDict
  /\ self_maps = EmptyDict
  /\ heap_models = [o \in {0} |-> EmptyDict]
  /\ heap_maps = [o \in {0} |-> <<>>]
  /\ rev_map = EmptyDict
  /\ db = [tb \in Tables |-> <<>>]
  /\ session = EmptyDict
  /\ call = [op |-> "__init__", drv |-> 0]
  /\ outcome = [raised |-> ""]
NextSchema == DefineModel \/ Validate
SpecSchema == InitSchema /\ [][NextSchema]_vars

\* ---- C7 (SpecSchema)
DeclaredPartials(ann) ==
  {PartialFieldNames[i] : i \in {j \in 1..Len(ann) : ann[j] = "PartialRef[Model]"}}
ConfigAccepted(config) ==
  config.kind = "Config" \/ (config.kind = "dict" /\ config.search_by # None)

\* C7, as stated: a definition succeeds only with partials keys equal to the
\* set of its partial reference fields, fails when the two sets differ, and
\* names every missing field when some are missing.
C7_PartialsKeysExact ==
  (call.op = "class" /\ ConfigAccepted(call.config)) =>
    /\ outcome.kind = "class" =>
         DOMAIN call.config.partials = DeclaredPartials(call.ann)
    /\ DOMAIN call.config.partials # DeclaredPartials(call.ann) =>
         outcome.kind = "error"

\* C7, amended: a definition succeeds only with every partial reference
\* field among its partials keys (the keys may name more than the partial
\* fields); it fails when a partial field is missing from them, and when
\* every partial reference targets a Model that error names exactly the
\* missing fields, all of them.
C7_PartialsKeysCover ==
  (call.op = "class" /\ ConfigAccepted(call.config)) =>
    LET missing == DeclaredPartials(call.ann) \ DOMAIN call.config.partials
        targetsOk == \A i \in 1..Len(call.ann) : call.ann[i] # "PartialRef[int]"
    IN /\ outcome.kind = "class" =>
            /\ missing = {}
            /\ SeqRange(outcome.ezycore_internal__partials)
                 = DeclaredPartials(call.ann)
       /\ missing # {} => outcome.kind = "error"
       /\ (missing # {} /\ targetsOk) =>
            /\ outcome.exc = "ValueError: Missing partial definitions for"
            /\ SeqRange(outcome.names) = missing
       /\ (missing = {} /\ targetsOk) => outcome.kind = "class"

\* two partial fields are missing and the error names both
C7_Witness ==
  /\ call.op = "class" /\ ConfigAccepted(call.config)
  /\ outcome.kind = "error"
  /\ Cardinality(DeclaredPartials(call.ann) \ DOMAIN call.config.partials) = 2
  /\ Len(outcome.names) = 2
  /\ "legacy" \in DOMAIN call.config.partials

\* ---- C8 (SpecSchema)
\* C8: for a partial reference to M whose search_by names a field of M: an
\* instance of M is stored as it is; any other value is accepted iff the
\* rule of M's primary-key field accepts it, the value stored is then the
\* coerced key, and otherwise validation fails with that field's error.
C8_PartialRefCoercesToKey ==
  (call.op = "validate"
   /\ SearchBy(outcome.target) \in DOMAIN TargetFields(outcome.target)) =>
    LET m == outcome.target
        v == outcome.v
        pk == SearchBy(m)
        rule == FieldValidate(FieldType(pk), v)
    IN IF v.t = "inst" /\ v.cls \in {m} \cup (IF m = "Author" THEN {"Admin"} ELSE {})
         THEN outcome.kind = "value" /\ outcome.stored = v
         ELSE /\ outcome.kind = "value" <=> rule.ok
              /\ rule.ok => outcome.stored = rule.v
              /\ ~rule.ok =>
                   /\ outcome.kind = "ValidationError"
                   /\ outcome.err.loc = pk
                   /\ outcome.err.exc =
                        (IF FieldType(pk) = "int" THEN "IntegerError"
                         ELSE "StrError")

\* the string "7" for Author's int key is stored as the int 7
C8_Witness ==
  /\ call.op = "validate"
  /\ outcome.kind = "value" /\ outcome.target = "Author"
  /\ outcome.v = StrV(7) /\ outcome.stored = IntV(7)
====
